---- MODULE Spec2Model ----
(***************************************************************************)
(* A model of src/lib/prismix.ts: the entity merger mixModels and the      *)
(* orchestrator prismix, which loads the input schemas of each mixer,      *)
(* merges their models, reduces enums, datasources and generators, renders *)
(* the four sections and writes the joined text.                           *)
(*                                                                         *)
(* Two specifications share the definitions:                               *)
(*   SpecMix  one call of mixModels, one loop iteration per step, on every *)
(*            bounded array of models;                                     *)
(*   Spec     one call of prismix, one step per await.                     *)
(***************************************************************************)
EXTENDS Naturals, Sequences, FiniteSets

VARIABLES
    \* ---- mixModels (SpecMix) ----
    inputModels,    \* the Model objects handed to mixModels; entry i is object i
    loadedModels,   \* history: the same objects as getSchema returned them
    modelsByName,   \* mixModels' local `models`: own keys in insertion order
    mmIndex,        \* position of the for-of loop of line 48
    mmPc,           \* "loop" | "returned" | "threw"
    mmResult,       \* the returned array: references into inputModels
    \* ---- prismix (Spec) ----
    nMixers,        \* options.mixers.length
    m,              \* index of the mixer the outer loop is at (1-based)
    mixer,          \* the current mixer: [input |-> number of input paths]
    pc,             \* position inside prismix
    error,          \* what the rejected promise carries, "none" while running
    schemasToMix,   \* the schemas pushed so far for this mixer
    loaded,         \* history: schemasToMix as getSchema returned each entry
    models, enums, datasources, generators,
    rendered,       \* the array literal of lines 98-103, filled left to right
    outputSchema,
    writeCalls      \* writeCalls[j]: calls of writeFile made for mixer j

mixVars == <<inputModels, loadedModels, modelsByName, mmIndex, mmPc, mmResult>>
jobVars == <<nMixers, m, mixer, pc, error, schemasToMix, loaded, models, enums,
             datasources, generators, rendered, outputSchema, writeCalls>>
vars == <<mixVars, jobVars>>

----------------------------------------------------------------------------
(* Bounds of the model *)
MaxStream == 3      \* models in one array handed to mixModels
MaxFields == 2      \* fields of one loaded model
MaxMixers == 2      \* options.mixers.length
MaxInputs == 2      \* mixer.input.length

(* Names.  A model name is an identifier of the schema language, so it is   *)
(* never an integer-like key and Object.values keeps insertion order.       *)
ModelNames == {"User", "Post", "constructor"}
FieldNames == {"id", "name"}

(* `const models: Record<string, Model> = {}` is an ordinary object: a key  *)
(* it does not own is looked up on Object.prototype.                        *)
ObjectPrototypeKeys ==
    {"constructor", "hasOwnProperty", "isPrototypeOf", "propertyIsEnumerable",
     "toLocaleString", "toString", "valueOf"}

----------------------------------------------------------------------------
(* Sequences helpers *)
SeqsUpTo(S, n) == UNION {[1..k -> S] : k \in 0..n}

Range(s) == {s[k] : k \in DOMAIN s}

\* Array.prototype.includes on an array of names
Includes(arr, x) == \E k \in DOMAIN arr : arr[k] = x

\* Array.prototype.indexOf (1-based here): the first position holding x
IndexOf(arr, x) == CHOOSE k \in DOMAIN arr : arr[k] = x /\ \A l \in 1..(k-1) : arr[l] # x

----------------------------------------------------------------------------
(* Loaded models.  mixModels never reads a field's payload, so each payload *)
(* is the place the field was loaded at, <<model, position>>: all payloads  *)
(* are distinct objects, as after getDMMF.                                  *)
FieldsOf(at, names) ==
    [j \in DOMAIN names |-> [name |-> names[j], payload |-> <<at, j>>]]

ModelAt(at, name, names) == [name |-> name, fields |-> FieldsOf(at, names)]

ModelShapes == ModelNames \X SeqsUpTo(FieldNames, MaxFields)

ModelStreams ==
    UNION {{[i \in 1..k |-> ModelAt(i, sh[i][1], sh[i][2])] : sh \in [1..k -> ModelShapes]}
           : k \in 0..MaxStream}

----------------------------------------------------------------------------
(* mixModels, lines 46-70 *)

\* models[newModel.name], line 49
Lookup(rec, key) ==
    IF \E k \in DOMAIN rec : rec[k].key = key
    THEN [kind |-> "own", ref |-> (CHOOSE r \in {rec[k].ref : k \in {l \in DOMAIN rec : rec[l].key = key}} : TRUE)]
    ELSE IF key \in ObjectPrototypeKeys
         THEN [kind |-> "inherited", ref |-> 0]
         ELSE [kind |-> "undefined", ref |-> 0]

\* lines 53-64: existingFieldNames is computed once, before the loop over
\* newModel.fields, and is not updated by the push of line 62
RECURSIVE MergeLoop(_, _, _, _)
MergeLoop(existingFieldNames, fields, newFields, j) ==
    IF j > Len(newFields) THEN fields
    ELSE LET newField == newFields[j] IN
         IF Includes(existingFieldNames, newField.name)
         THEN MergeLoop(existingFieldNames,
                        [fields EXCEPT ![IndexOf(existingFieldNames, newField.name)] = newField],
                        newFields, j + 1)
         ELSE MergeLoop(existingFieldNames, Append(fields, newField), newFields, j + 1)

MergeFields(existingFields, newFields) ==
    MergeLoop([k \in DOMAIN existingFields |-> existingFields[k].name],
              existingFields, newFields, 1)

\* one iteration of the loop of line 48 on object i of the heap
MixStep(st, i) ==
    LET newModel == st.heap[i]
        existingModel == Lookup(st.models, newModel.name)
    IN  CASE existingModel.kind = "own" ->
               [st EXCEPT !.heap[existingModel.ref].fields =
                              MergeFields(st.heap[existingModel.ref].fields, newModel.fields)]
          [] existingModel.kind = "inherited" ->
               \* a function of Object.prototype is truthy and has no `fields`:
               \* existingModel.fields.map throws a TypeError (line 53)
               [st EXCEPT !.threw = TRUE]
          [] OTHER ->
               [st EXCEPT !.models = Append(@, [key |-> newModel.name, ref |-> i])]

RECURSIVE MixLoop(_, _)
MixLoop(st, i) ==
    IF st.threw \/ i > Len(st.heap) THEN st ELSE MixLoop(MixStep(st, i), i + 1)

\* Object.values(models), line 69: the references in insertion order
ObjectValues(rec) == [k \in DOMAIN rec |-> rec[k].ref]

\* the whole call: the heap after it, and the result unless it threw
MixModels(stream) ==
    LET st == MixLoop([heap |-> stream, models |-> <<>>, threw |-> FALSE], 1)
    IN  [heap |-> st.heap, threw |-> st.threw, result |-> ObjectValues(st.models)]

----------------------------------------------------------------------------
(* SpecMix: mixModels step by step *)

JobIdle ==
    /\ nMixers = 0 /\ m = 0 /\ mixer = [input |-> 0] /\ pc = "idle" /\ error = "none"
    /\ schemasToMix = <<>> /\ loaded = <<>> /\ models = <<>> /\ enums = <<>>
    /\ datasources = <<>> /\ generators = <<>> /\ rendered = <<>>
    /\ outputSchema = <<>> /\ writeCalls = <<>>

MixInit ==
    /\ inputModels \in ModelStreams
    /\ loadedModels = inputModels
    /\ modelsByName = <<>>
    /\ mmIndex = 1
    /\ mmPc = "loop"
    /\ mmResult = <<>>
    /\ JobIdle

MixIterate ==
    /\ mmPc = "loop"
    /\ mmIndex <= Len(inputModels)
    /\ LET st == MixStep([heap |-> inputModels, models |-> modelsByName, threw |-> FALSE], mmIndex)
       IN  /\ inputModels' = st.heap
           /\ modelsByName' = st.models
           /\ mmPc' = IF st.threw THEN "threw" ELSE "loop"
           /\ mmIndex' = IF st.threw THEN mmIndex ELSE mmIndex + 1
    /\ UNCHANGED <<loadedModels, mmResult, jobVars>>

MixReturn ==
    /\ mmPc = "loop"
    /\ mmIndex > Len(inputModels)
    /\ mmResult' = ObjectValues(modelsByName)
    /\ mmPc' = "returned"
    /\ UNCHANGED <<inputModels, loadedModels, modelsByName, mmIndex, jobVars>>

MixNext == MixIterate \/ MixReturn

SpecMix == MixInit /\ [][MixNext]_vars

----------------------------------------------------------------------------
(* getSchema, lines 30-44: what one load can return.  Every object of a     *)
(* loaded schema is fresh, so it carries the position k of the input it was *)
(* loaded for.                                                              *)
SchemaModelShapes ==
    {<<>>, <<<<"User", <<"id">>>>>>, <<<<"User", <<"name", "id">>>>>>, <<<<"constructor", <<>>>>>>}
SchemaEnumShapes == {<<>>, <<"Role">>}
SchemaDatasourceShapes == {<<>>, <<"db">>}
SchemaGeneratorShapes == {<<>>, <<"client">>}

SchemaShapes ==
    [models : SchemaModelShapes, enums : SchemaEnumShapes,
     datasources : SchemaDatasourceShapes, generators : SchemaGeneratorShapes]

Tagged(k, names) == [i \in DOMAIN names |-> [name |-> names[i], from |-> k]]

\* the object getSchema returns, lines 38-43
SchemaAt(k, sh) ==
    [models |-> [i \in DOMAIN sh.models |-> ModelAt(<<k, i>>, sh.models[i][1], sh.models[i][2])],
     enums |-> Tagged(k, sh.enums),
     datasources |-> Tagged(k, sh.datasources),
     generators |-> Tagged(k, sh.generators)]

----------------------------------------------------------------------------
(* prismix, lines 72-109 *)

\* lines 80-81: models = [...models, ...schema.models] over the schemas
RECURSIVE ExtractModels(_, _)
ExtractModels(schemas, k) ==
    IF k > Len(schemas) THEN <<>>
    ELSE schemas[k].models \o ExtractModels(schemas, k + 1)

\* where the models of schema k lie in the extracted array
RECURSIVE Offset(_, _)
Offset(schemas, k) ==
    IF k <= 1 THEN 0 ELSE Offset(schemas, k - 1) + Len(schemas[k - 1].models)

\* the schemas after mixModels has written to the model objects they hold
WrittenBack(schemas, heap) ==
    [k \in DOMAIN schemas |->
        [schemas[k] EXCEPT !.models =
            SubSeq(heap, Offset(schemas, k) + 1, Offset(schemas, k) + Len(schemas[k].models))]]

\* a reducer that merges enums by name, as mixModels does for models
RECURSIVE ReduceEnums_ByName(_, _, _)
ReduceEnums_ByName(schemas, acc, k) ==
    IF k > Len(schemas) THEN acc
    ELSE ReduceEnums_ByName(
             schemas,
             acc \o SelectSeq(schemas[k].enums,
                              LAMBDA e : \A i \in DOMAIN acc : acc[i].name # e.name),
             k + 1)

\* lines 84-85: enums = [...enums, ...schema.enums] for each schema in turn
\* (dmmf.datamodel.enums is always an array, so !!schema.enums is true)
RECURSIVE ReduceEnums(_, _, _)
ReduceEnums(schemas, acc, k) ==
    IF k > Len(schemas) THEN acc
    ELSE ReduceEnums(schemas, acc \o schemas[k].enums, k + 1)

\* a reducer that keeps the first non-empty datasources instead of the last
RECURSIVE ReduceDatasources_FirstWins(_, _, _)
ReduceDatasources_FirstWins(schemas, acc, k) ==
    IF k > Len(schemas) THEN acc
    ELSE ReduceDatasources_FirstWins(
             schemas,
             IF Len(acc) = 0 THEN schemas[k].datasources ELSE acc,
             k + 1)

\* lines 88-91: datasources = schema.datasources whenever it is non-empty
RECURSIVE ReduceDatasources(_, _, _)
ReduceDatasources(schemas, acc, k) ==
    IF k > Len(schemas) THEN acc
    ELSE ReduceDatasources(schemas,
                           IF Len(schemas[k].datasources) > 0 THEN schemas[k].datasources ELSE acc,
                           k + 1)

\* lines 93-96: generators = schema.generators whenever it is non-empty
RECURSIVE ReduceGenerators(_, _, _)
ReduceGenerators(schemas, acc, k) ==
    IF k > Len(schemas) THEN acc
    ELSE ReduceGenerators(schemas,
                          IF Len(schemas[k].generators) > 0 THEN schemas[k].generators ELSE acc,
                          k + 1)

\* A text is a sequence of tokens; "\n" is one line break.
LineBreak == "\n"

\* ./deserializer is not part of the sources: a section renders to the empty
\* text when it is empty, else to one block per entry, one per line
Deserialize(kind, section) ==
    [k \in 1..(IF Len(section) = 0 THEN 0 ELSE 2 * Len(section) - 1) |->
        IF k % 2 = 1 THEN kind ELSE LineBreak]

SectionKinds == <<"datasource", "generator", "model", "enum">>

\* the section handed to the k-th deserializer of lines 99-102
SectionAt(k) ==
    CASE k = 1 -> datasources [] k = 2 -> generators [] k = 3 -> models [] OTHER -> enums

\* a filter that drops nothing
FilterTruthy_KeepsAll(arr) == arr

\* .filter((e) => e), line 104: the empty string is the only falsy text
FilterTruthy(arr) == SelectSeq(arr, LAMBDA e : e # <<>>)

\* the separator of line 105
Separator == <<LineBreak, LineBreak, LineBreak>>

\* Array.prototype.join
RECURSIVE Join(_, _)
Join(arr, sep) ==
    IF Len(arr) = 0 THEN <<>>
    ELSE IF Len(arr) = 1 THEN arr[1]
    ELSE arr[1] \o sep \o Join(Tail(arr), sep)

MixIdle ==
    /\ inputModels = <<>> /\ loadedModels = <<>> /\ modelsByName = <<>>
    /\ mmIndex = 0 /\ mmPc = "idle" /\ mmResult = <<>>

Init ==
    /\ nMixers \in 0..MaxMixers
    /\ m = 0
    /\ mixer = [input |-> 0]
    /\ pc = "next"
    /\ error = "none"
    /\ schemasToMix = <<>> /\ loaded = <<>>
    /\ models = <<>> /\ enums = <<>> /\ datasources = <<>> /\ generators = <<>>
    /\ rendered = <<>> /\ outputSchema = <<>>
    /\ writeCalls = [j \in 1..nMixers |-> 0]
    /\ MixIdle

\* line 73: the loop takes the next mixer; its locals are fresh.  Each mixer
\* reads only its own entry of options.mixers, drawn here.
NextMixer ==
    /\ pc = "next" /\ m < nMixers
    /\ m' = m + 1
    /\ \E n \in 0..MaxInputs : mixer' = [input |-> n]
    /\ schemasToMix' = <<>> /\ loaded' = <<>>
    /\ models' = <<>> /\ enums' = <<>> /\ datasources' = <<>> /\ generators' = <<>>
    /\ rendered' = <<>> /\ outputSchema' = <<>>
    /\ pc' = "load"
    /\ UNCHANGED <<nMixers, error, writeCalls, mixVars>>

\* line 73: no mixer is left, prismix resolves
Finish ==
    /\ pc = "next" /\ m = nMixers
    /\ pc' = "done"
    /\ UNCHANGED <<nMixers, m, mixer, error, schemasToMix, loaded, models, enums,
                   datasources, generators, rendered, outputSchema, writeCalls, mixVars>>

\* line 77: schemasToMix.push(await getSchema(input))
LoadSchema ==
    /\ pc = "load" /\ Len(schemasToMix) < mixer.input
    /\ \E sh \in SchemaShapes :
          LET schema == SchemaAt(Len(schemasToMix) + 1, sh)
          IN  /\ schemasToMix' = Append(schemasToMix, schema)
              /\ loaded' = Append(loaded, schema)
    /\ UNCHANGED <<nMixers, m, mixer, pc, error, models, enums, datasources, generators,
                   rendered, outputSchema, writeCalls, mixVars>>

\* line 77: readFile, getDMMF or getConfig rejects (lines 31-36); nothing
\* catches it, so prismix rejects
LoadFails ==
    /\ pc = "load" /\ Len(schemasToMix) < mixer.input
    /\ pc' = "threw"
    /\ error' \in {"IOError(read)", "ParseError"}
    /\ UNCHANGED <<nMixers, m, mixer, schemasToMix, loaded, models, enums, datasources,
                   generators, rendered, outputSchema, writeCalls, mixVars>>

\* lines 79-96, no await between them: extract and mix the models, then
\* reduce enums, datasources and generators
MixAndReduce ==
    /\ pc = "load" /\ Len(schemasToMix) = mixer.input
    /\ LET mixed == MixModels(ExtractModels(schemasToMix, 1))
           after == WrittenBack(schemasToMix, mixed.heap)
       IN  /\ ~mixed.threw
           /\ schemasToMix' = after
           /\ models' = [k \in DOMAIN mixed.result |-> mixed.heap[mixed.result[k]]]
           /\ enums' = ReduceEnums(after, <<>>, 1)
           /\ datasources' = ReduceDatasources(after, <<>>, 1)
           /\ generators' = ReduceGenerators(after, <<>>, 1)
    /\ pc' = "render"
    /\ UNCHANGED <<nMixers, m, mixer, error, loaded, rendered, outputSchema, writeCalls, mixVars>>

\* line 82: mixModels throws (line 53), prismix rejects
MixThrows ==
    /\ pc = "load" /\ Len(schemasToMix) = mixer.input
    /\ LET mixed == MixModels(ExtractModels(schemasToMix, 1))
       IN  /\ mixed.threw
           /\ schemasToMix' = WrittenBack(schemasToMix, mixed.heap)
    /\ pc' = "threw"
    /\ error' = "TypeError"
    /\ UNCHANGED <<nMixers, m, mixer, loaded, models, enums, datasources, generators,
                   rendered, outputSchema, writeCalls, mixVars>>

\* lines 99-102: the next deserializer resolves
Render ==
    /\ pc = "render" /\ Len(rendered) < Len(SectionKinds)
    /\ LET k == Len(rendered) + 1
       IN  rendered' = Append(rendered, Deserialize(SectionKinds[k], SectionAt(k)))
    /\ UNCHANGED <<nMixers, m, mixer, pc, error, schemasToMix, loaded, models, enums,
                   datasources, generators, outputSchema, writeCalls, mixVars>>

\* a rejected deserializer that is caught and logged, the mixer going on to
\* its write
RenderFails_Swallowed ==
    /\ pc = "render" /\ Len(rendered) < Len(SectionKinds)
    /\ pc' = "write"
    /\ error' = "RenderError"
    /\ UNCHANGED <<nMixers, m, mixer, schemasToMix, loaded, models, enums, datasources,
                   generators, rendered, outputSchema, writeCalls, mixVars>>

\* lines 99-102: the next deserializer rejects
RenderFails ==
    /\ pc = "render" /\ Len(rendered) < Len(SectionKinds)
    /\ pc' = "threw"
    /\ error' = "RenderError"
    /\ UNCHANGED <<nMixers, m, mixer, schemasToMix, loaded, models, enums, datasources,
                   generators, rendered, outputSchema, writeCalls, mixVars>>

\* lines 98-105: the four texts are filtered and joined
Assemble ==
    /\ pc = "render" /\ Len(rendered) = Len(SectionKinds)
    /\ outputSchema' = Join(FilterTruthy(rendered), Separator)
    /\ pc' = "write"
    /\ UNCHANGED <<nMixers, m, mixer, error, schemasToMix, loaded, models, enums,
                   datasources, generators, rendered, writeCalls, mixVars>>

\* line 107: writeFile(mixer.output, outputSchema) resolves; the loop goes on
WriteOutput ==
    /\ pc = "write"
    /\ writeCalls' = [writeCalls EXCEPT ![m] = @ + 1]
    /\ pc' = "next"
    /\ UNCHANGED <<nMixers, m, mixer, error, schemasToMix, loaded, models, enums,
                   datasources, generators, rendered, outputSchema, mixVars>>

\* line 107: writeFile rejects
WriteFails ==
    /\ pc = "write"
    /\ writeCalls' = [writeCalls EXCEPT ![m] = @ + 1]
    /\ pc' = "threw"
    /\ error' = "IOError(write)"
    /\ UNCHANGED <<nMixers, m, mixer, schemasToMix, loaded, models, enums, datasources,
                   generators, rendered, outputSchema, mixVars>>

Next ==
    \/ NextMixer \/ Finish
    \/ LoadSchema \/ LoadFails
    \/ MixAndReduce \/ MixThrows
    \/ Render \/ RenderFails
    \/ Assemble
    \/ WriteOutput \/ WriteFails

Spec == Init /\ [][Next]_vars

----------------------------------------------------------------------------
(* What the claims about mixModels speak of *)

\* the positions of a set of naturals in ascending order
Ascending(I) ==
    [k \in 1..Cardinality(I) |-> CHOOSE i \in I : Cardinality({l \in I : l <= i}) = k]

Count(arr, x) == Cardinality({k \in DOMAIN arr : arr[k] = x})

Distinct(arr) == \A k, l \in DOMAIN arr : arr[k] = arr[l] => k = l

NamesOf(arr) == [k \in DOMAIN arr |-> arr[k].name]

\* an array with every element that repeats an earlier one left out
FirstOccurrences(arr) ==
    LET I == {i \in DOMAIN arr : \A l \in 1..(i - 1) : arr[l] # arr[i]}
    IN  [k \in 1..Cardinality(I) |-> arr[Ascending(I)[k]]]

\* the input exactly as it was passed, and the call's outcome
MixEnded == mmPc \in {"returned", "threw"}
MergedModels == [k \in DOMAIN mmResult |-> inputModels[mmResult[k]]]

\* the positions of the stream that hold a model named N, in stream order
Named(stream, N) == Ascending({i \in DOMAIN stream : stream[i].name = N})

RECURSIVE FlattenFields(_, _, _)
FlattenFields(stream, idx, k) ==
    IF k > Len(idx) THEN <<>>
    ELSE stream[idx[k]].fields \o FlattenFields(stream, idx, k + 1)

\* the field list the specification describes for the models named N:
\* names in order of first appearance over the models named N (the first-seen
\* model's fields, then each new name where it is first met), each with the
\* payload of the last model named N that has a field of that name
ReconciledFields(stream, N) ==
    LET all == FlattenFields(stream, Named(stream, N), 1)
        order == FirstOccurrences(NamesOf(all))
        lastAt(x) == CHOOSE k \in DOMAIN all :
                        all[k].name = x /\ \A l \in DOMAIN all : all[l].name = x => l <= k
    IN  [k \in DOMAIN order |-> all[lastAt(order[k])]]

FieldNamesDistinct(stream) == \A i \in DOMAIN stream : Distinct(NamesOf(stream[i].fields))

\* C1: for a stream whose models each have pairwise distinct field names,
\* mixModels returns, for every model name N of the stream, a model N whose
\* fields are the first-seen model's fields in their order followed by the new
\* names in the order first met, each with the payload of the last model named
\* N that defines it.
C1_FieldReconciliation ==
    (MixEnded /\ FieldNamesDistinct(loadedModels)) =>
        /\ mmPc = "returned"
        /\ \A N \in Range(NamesOf(loadedModels)) :
              \E k \in DOMAIN MergedModels :
                  /\ MergedModels[k].name = N
                  /\ MergedModels[k].fields = ReconciledFields(loadedModels, N)

\* C1, for the calls that return
C1_FieldReconciliationOnReturn ==
    (mmPc = "returned" /\ FieldNamesDistinct(loadedModels)) =>
        \A N \in Range(NamesOf(loadedModels)) :
            \E k \in DOMAIN MergedModels :
                /\ MergedModels[k].name = N
                /\ MergedModels[k].fields = ReconciledFields(loadedModels, N)

\* C2: for every stream, mixModels returns the model names of the input, each
\* exactly once and no other, in the order of their first occurrence.
C2_NamesOnceInFirstSeenOrder ==
    MixEnded =>
        /\ mmPc = "returned"
        /\ NamesOf(MergedModels) = FirstOccurrences(NamesOf(loadedModels))

\* C2, for the calls that return
C2_NamesOnceOnReturn ==
    mmPc = "returned" => NamesOf(MergedModels) = FirstOccurrences(NamesOf(loadedModels))

\* C8: when all model names of the stream are pairwise distinct, mixModels
\* returns the stream itself, every field list unchanged.
C8_DisjointNamesConcatenate ==
    (MixEnded /\ Distinct(NamesOf(loadedModels))) =>
        /\ mmPc = "returned"
        /\ MergedModels = loadedModels

\* C8, for the calls that return
C8_DisjointNamesOnReturn ==
    (mmPc = "returned" /\ Distinct(NamesOf(loadedModels))) => MergedModels = loadedModels

\* the iteration about to run merges into a model the mapping already holds
Merging ==
    /\ mmPc = "loop" /\ mmIndex <= Len(inputModels)
    /\ Lookup(modelsByName, inputModels[mmIndex].name).kind = "own"

AccumulatedRef == Lookup(modelsByName, inputModels[mmIndex].name).ref
Accumulated == inputModels[AccumulatedRef]

\* C9: when an incoming model is merged into the accumulated one and brings a
\* field name twice that the accumulated model did not have, the accumulated
\* model gains that name exactly once (appended, then replaced in place).
C9_IncomingDuplicateAddedOnce ==
    [][\A x \in FieldNames :
          ( /\ Merging
            /\ Count(NamesOf(inputModels[mmIndex].fields), x) = 2
            /\ Count(NamesOf(Accumulated.fields), x) = 0 )
          => LET ref == AccumulatedRef
             IN  Count(NamesOf(inputModels'[ref].fields), x) = 1]_vars

----------------------------------------------------------------------------
(* What the claims about prismix speak of *)

\* prismix has settled: its promise resolved or rejected
Settled == pc \in {"done", "threw"}

\* writeFile has been called for the mixer the loop is at
Written == m >= 1 /\ writeCalls[m] >= 1

\* the mixer the loop is at has had its sections reduced (lines 79-96 ran)
Reduced == pc \in {"render", "write"} \/ Written \/ error = "RenderError"

\* C3: when one mixer fails, every later mixer is still run and writes its
\* output: once prismix has settled, each mixer after a failed one has had its
\* output written.
C3_JobIsolation ==
    (Settled /\ error # "none") => \A j \in (m + 1)..nMixers : writeCalls[j] >= 1

\* the inputs were loaded in their declared order: entry k of schemasToMix is
\* what was loaded for input k
LoadedInOrder ==
    /\ Len(schemasToMix) = mixer.input
    /\ \A k \in DOMAIN schemasToMix :
          \A sec \in {schemasToMix[k].enums, schemasToMix[k].datasources,
                      schemasToMix[k].generators} :
              \A i \in DOMAIN sec : sec[i].from = k

\* C4: the write of a mixer's output happens at most once and as the last
\* step, after all its inputs were loaded in order and all four sections were
\* rendered and joined; when a load or a render fails, no write happens.
C4_WriteLastAtMostOnce ==
    \A j \in DOMAIN writeCalls :
        /\ writeCalls[j] <= 1
        /\ writeCalls[j] = 1 => j <= m
        /\ (j = m /\ writeCalls[j] = 1) =>
              /\ pc \in {"next", "done", "threw"}
              /\ LoadedInOrder
              /\ Len(rendered) = Len(SectionKinds)
        /\ (j = m /\ error \in {"IOError(read)", "ParseError", "RenderError"}) =>
              writeCalls[j] = 0

C4_Witness ==
    /\ m = 2 /\ writeCalls = <<1, 0>> /\ error = "RenderError"
    /\ Len(schemasToMix) = 2 /\ Len(rendered) = 3

\* the list of the last schema, in input order, whose list is non-empty
LastNonEmpty(lists) ==
    LET S == {k \in DOMAIN lists : lists[k] # <<>>}
    IN  IF S = {} THEN <<>> ELSE lists[CHOOSE k \in S : \A l \in S : l <= k]

\* C5: the merged datasources are the datasources of the last loaded schema
\* that has any, whole, and empty if none has; so are, independently, the
\* merged generators.
C5_LastNonEmptyWins ==
    Reduced =>
        /\ datasources = LastNonEmpty([k \in DOMAIN loaded |-> loaded[k].datasources])
        /\ generators = LastNonEmpty([k \in DOMAIN loaded |-> loaded[k].generators])

C5_Witness ==
    /\ Reduced /\ Len(loaded) = 2
    /\ loaded[1].datasources # <<>> /\ loaded[2].datasources = <<>>
    /\ loaded[1].generators # <<>> /\ loaded[2].generators # <<>>
    /\ datasources = loaded[1].datasources
    /\ generators = loaded[2].generators

\* where the enums of schema k lie in the concatenation
RECURSIVE EnumsBefore(_)
EnumsBefore(k) == IF k <= 1 THEN 0 ELSE EnumsBefore(k - 1) + Len(loaded[k - 1].enums)

\* C6: the merged enums are the concatenation of the schemas' enums in input
\* order: as many as the inputs have together, same names kept.
C6_EnumsConcatenated ==
    Reduced =>
        /\ Len(enums) = EnumsBefore(Len(loaded) + 1)
        /\ \A k \in DOMAIN loaded : \A i \in DOMAIN loaded[k].enums :
              enums[EnumsBefore(k) + i] = loaded[k].enums[i]

C6_Witness ==
    /\ Reduced /\ Len(loaded) = 2
    /\ Len(enums) = 2 /\ enums[1].name = enums[2].name /\ enums[1] # enums[2]

\* C7: after mixModels has run, every loaded schema holds the models, with the
\* fields, it held right after its load.
C7_FragmentsImmutable ==
    error # "TypeError" =>
        \A k \in DOMAIN schemasToMix : schemasToMix[k].models = loaded[k].models

\* the text the specification describes: the non-empty texts in order, sep
\* between neighbours
RECURSIVE AssembledFrom(_, _, _, _)
AssembledFrom(texts, k, sep, started) ==
    IF k > Len(texts) THEN <<>>
    ELSE IF texts[k] = <<>> THEN AssembledFrom(texts, k + 1, sep, started)
    ELSE (IF started THEN sep ELSE <<>>) \o texts[k] \o AssembledFrom(texts, k + 1, sep, TRUE)

SectionTexts ==
    <<Deserialize("datasource", datasources), Deserialize("generator", generators),
      Deserialize("model", models), Deserialize("enum", enums)>>

\* C10 as stated: the written text is the non-empty rendered sections in the
\* order datasources, generators, models, enums, neighbours separated by a
\* double line break.
C10_DoubleLineBreak ==
    Written => outputSchema = AssembledFrom(SectionTexts, 1, <<LineBreak, LineBreak>>, FALSE)

\* C10 amended: the written text is the non-empty rendered sections in the
\* order datasources, generators, models, enums, neighbours separated by
\* exactly three line breaks; nothing precedes the first or follows the last,
\* and the text is empty when all four are.
C10_TripleLineBreak ==
    Written =>
        outputSchema = AssembledFrom(SectionTexts, 1, <<LineBreak, LineBreak, LineBreak>>, FALSE)

C10_Witness ==
    /\ Written
    /\ datasources # <<>> /\ generators = <<>> /\ models # <<>> /\ Len(enums) = 2
    /\ Len(outputSchema) = 1 + 3 + 1 + 3 + 3

====
